---- MODULE Spec2Model ----
(***************************************************************************)
(* Model of the ntfy subscription manager, src-tauri/src/ntfy.rs:          *)
(* the registry NtfyState.subscriptions (a tokio Mutex around a HashMap    *)
(* from full URL to JoinHandle), the commands subscribe and unsubscribe,   *)
(* and the worker task that subscribe spawns.                              *)
(*                                                                         *)
(* The commands run on a multi-threaded tokio runtime, so a command and a  *)
(* worker may run in parallel.  A tokio task is polled from one suspension *)
(* point (.await that returns Pending) to the next; JoinHandle::abort sets *)
(* the task's cancel flag, and the flag is acted upon only when the task   *)
(* is not being polled: a task that is idle or scheduled is dropped        *)
(* without being polled again, a task that is in the middle of a poll runs *)
(* on to its next Pending and is dropped there.                            *)
(***************************************************************************)
EXTENDS Integers, Sequences, FiniteSets, TLC

(* ---------------------------- bounds ---------------------------------- *)

\* The model is checked over bounded runs, each with its own inputs.  The
\* lifecycle run has several workers and concurrent commands, with short
\* streams; the streaming run has one subscription, with reconnects and longer
\* streams of every kind of frame; the dispatch run has messages of every
\* shape; the topics run has workers of different topics and inputs whose keys
\* coincide; the fair run is the one checked under fair scheduling.

\* lifecycle run: workers spawned, concurrent commands, connection attempts
\* of a worker, message frames read
LifecycleWorkers == 2
LifecycleCalls == 2
LifecycleAttempts == 1
LifecycleFrames == 1

\* streaming run: the same four bounds
StreamingWorkers == 1
StreamingCalls == 1
StreamingAttempts == 2
StreamingFrames == 3

\* dispatch run: one worker, one connection, messages of every shape
DispatchWorkers == 1
DispatchCalls == 1
DispatchAttempts == 1
DispatchFrames == 2

\* fair run: one worker and two concurrent commands, under fair scheduling
FairWorkers == 1
FairCalls == 2
FairAttempts == 2
FairFrames == 2

\* topics run: two workers of different topics, one command at a time
TopicsWorkers == 2
TopicsCalls == 1
TopicsAttempts == 1
TopicsFrames == 1

(* ---------------------------- inputs ---------------------------------- *)

\* Strings are sequences of one-character strings; "h" stands for a host.
\* The (server_url, topic) arguments the commands are invoked with.
Targets ==
  { <<<<"h">>, <<"b">>>>, <<<<"h", "/">>, <<"b">>>>,
    <<<<"h", "/", "a">>, <<"b">>>>, <<<<"h">>, <<"a", "/", "b">>>> }

None == <<>>
Some(v) == <<v>>

\* Data payloads of SSE message frames: text that is not JSON, a JSON object
\* that lacks a required field, and complete objects of two event kinds.
Message == [form |-> "object",
            obj |-> [id |-> "m", time |-> 7, event |-> "message", topic |-> "b"]]

Payloads ==
  { [form |-> "text", obj |-> <<>>],
    [form |-> "object", obj |-> [id |-> "m", time |-> 7, event |-> "message"]],
    Message,
    [form |-> "object",
     obj |-> [id |-> "m", time |-> 7, event |-> "keepalive", topic |-> "b"]] }

LifecycleRun ==
  [workers |-> LifecycleWorkers, calls |-> LifecycleCalls,
   attempts |-> LifecycleAttempts, frames |-> LifecycleFrames,
   targets |-> Targets \ { <<<<"h", "/", "a">>, <<"b">>>> },
   payloads |-> {Message}, results |-> {TRUE}]

StreamingRun ==
  [workers |-> StreamingWorkers, calls |-> StreamingCalls,
   attempts |-> StreamingAttempts, frames |-> StreamingFrames,
   targets |-> { <<<<"h", "/">>, <<"b">>>> }, payloads |-> Payloads,
   results |-> BOOLEAN]

\* The time field of a message is an i64.  The timestamps of the dispatch run:
\* negative, zero, and the two largest values of an i32.
Times == {-5, 0, 2147483646, 2147483647}

\* a complete message of kind "message" with the given time and no title or
\* message field
Timed(t) ==
  [form |-> "object",
   obj |-> [id |-> "m", time |-> t, event |-> "message", topic |-> "b"]]

\* messages with and without a title and a message field
Titled ==
  { [form |-> "object",
     obj |-> [id |-> "m", time |-> 7, event |-> "message", topic |-> "b",
              title |-> <<"T">>]],
    [form |-> "object",
     obj |-> [id |-> "m", time |-> 7, event |-> "message", topic |-> "b",
              message |-> "B"]],
    [form |-> "object",
     obj |-> [id |-> "m", time |-> 7, event |-> "message", topic |-> "b",
              title |-> <<"T">>, message |-> "B"]] }

DispatchRun ==
  [workers |-> DispatchWorkers, calls |-> DispatchCalls,
   attempts |-> DispatchAttempts, frames |-> DispatchFrames,
   targets |-> { <<<<"h">>, <<"b">>>> },
   payloads |-> {Timed(t) : t \in Times} \cup Titled \cup {Message},
   results |-> {TRUE}]

\* Two topics of one server, and a pair whose server ends in the path
\* segment the other pair's topic starts with; frames that fail to decode and
\* sinks that fail.
TopicsRun ==
  [workers |-> TopicsWorkers, calls |-> TopicsCalls,
   attempts |-> TopicsAttempts, frames |-> TopicsFrames,
   targets |-> { <<<<"h">>, <<"b">>>>, <<<<"h", "/", "a">>, <<"b">>>>,
                 <<<<"h">>, <<"a", "/", "b">>>> },
   payloads |-> { [form |-> "text", obj |-> <<>>], Message },
   results |-> BOOLEAN]

\* one subscription that two concurrent commands make and unmake
FairRun ==
  [workers |-> FairWorkers, calls |-> FairCalls,
   attempts |-> FairAttempts, frames |-> FairFrames,
   targets |-> { <<<<"h">>, <<"b">>>> },
   payloads |-> {Message}, results |-> {TRUE}]

Runs == {LifecycleRun, StreamingRun, DispatchRun, TopicsRun}

(* ---------------------------- state ----------------------------------- *)

VARIABLES
  limits,         \* the bounds and inputs of the run, fixed by Init
  subscriptions,  \* NtfyState.subscriptions: full URL -> worker (JoinHandle)
  locked,         \* holder of the tokio Mutex: a call, or 0
  call,           \* per invocation: command, arguments, position, local handle
  nworkers,       \* workers spawned so far
  worker,         \* per worker: captured values, position, task state
  reads,          \* message frames read so far: reader and data, in order
  notifications,  \* calls of NotificationSink.show, in order
  events          \* calls of EventSink.emit, in order

vars == <<limits, subscriptions, locked, call, nworkers, worker, reads,
          notifications, events>>

Calls == 1..limits.calls
Workers == 1..limits.workers

(* ------------------------ pure functions ------------------------------ *)

\* faulty variant: the server is not normalised
TrimNothing(s) == s

\* str::trim_end_matches('/'): every trailing '/' is removed
RECURSIVE TrimEndMatches(_)
TrimEndMatches(s) ==
  IF Len(s) > 0 /\ s[Len(s)] = "/"
  THEN TrimEndMatches(SubSeq(s, 1, Len(s) - 1))
  ELSE s

\* let base_url = server_url.trim_end_matches('/')
BaseUrl(server_url) == TrimEndMatches(server_url)

\* let full_url = format!("{}/{}", base_url, topic)
FullUrl(server_url, topic) == BaseUrl(server_url) \o <<"/">> \o topic

RequiredFields == {"id", "time", "event", "topic"}

\* serde_json::from_str::<NtfyMessage>: Err unless the payload is a JSON object
\* holding every non-Option field; an absent Option field decodes to None
Decode(data) ==
  IF data.form = "object" /\ RequiredFields \subseteq DOMAIN data.obj
  THEN [ok |-> TRUE,
        msg |-> [id |-> data.obj.id,
                 time |-> data.obj.time,
                 event |-> data.obj.event,
                 topic |-> data.obj.topic,
                 title |-> IF "title" \in DOMAIN data.obj
                           THEN Some(data.obj.title) ELSE None,
                 message |-> IF "message" \in DOMAIN data.obj
                             THEN Some(data.obj.message) ELSE None]]
  ELSE [ok |-> FALSE, msg |-> None]

\* faulty variant: the event kind is not looked at
QualifiesAny(msg) == TRUE

\* if msg.event == "message"
Qualifies(msg) == msg.event = "message"

\* faulty variant: the fallback title is the bare topic
TitleOrTopic(msg) == IF msg.title # None THEN msg.title[1] ELSE <<msg.topic>>

\* msg.title.clone().unwrap_or_else(|| format!("ntfy: {}", msg.topic))
Title(msg) == IF msg.title # None THEN msg.title[1] ELSE <<"ntfy: ", msg.topic>>

\* msg.message.clone().unwrap_or_default()
Body(msg) == IF msg.message # None THEN msg.message[1] ELSE ""

I32Max == 2147483647

\* Rust's % on i64: the remainder takes the sign of the dividend
Rem(a, b) == IF a >= 0 THEN a % b ELSE -((-a) % b)

\* (msg.time % (i32::MAX as i64)) as i32
NotificationId(time) == Rem(time, I32Max)

(* ------------------------ initial state ------------------------------- *)

\* A slot with no invocation in flight; result is what the last one returned.
NoCall == [op |-> "none", server_url |-> <<>>, topic |-> <<>>, pc |-> "idle",
           handle |-> 0, result |-> "none"]

\* Ok(()): the invocation is over
ReturnOk == [NoCall EXCEPT !.result = "Ok"]

\* A worker slot that no subscribe has spawned yet.  Fields url and base are
\* the captured full_url_clone and base_url_clone; es is the EventSource;
\* frame is the data of the frame being handled.  The remaining fields are
\* history: origin is the (server_url, topic) of the spawning call, conn counts
\* the connection attempts of the task, skipped and filtered tell whether a
\* frame that did not decode, or one of another event kind, was dropped on the
\* current connection.  Field timer is the time in seconds left on the sleep
\* the task is suspended in, 0 when there is none; late counts the frames the
\* task has read since abort was called on it.
NoWorker == [url |-> <<>>, base |-> <<>>, pc |-> "none", task |-> "none",
             cancelled |-> FALSE, es |-> "none", frame |-> None,
             origin |-> <<>>, conn |-> 0, skipped |-> FALSE,
             filtered |-> FALSE, timer |-> 0, late |-> 0]

\* HashMap::new()
EmptyMap == [k \in {} |-> 0]

\* NtfyState::default(): an empty map behind an unlocked mutex
Start(run) ==
  /\ limits = run
  /\ subscriptions = EmptyMap
  /\ locked = 0
  /\ call = [c \in Calls |-> NoCall]
  /\ nworkers = 0
  /\ worker = [w \in Workers |-> NoWorker]
  /\ reads = <<>>
  /\ notifications = <<>>
  /\ events = <<>>

Init == \E run \in Runs : Start(run)

(* ------------------------ the registry -------------------------------- *)

Spawned == 1..nworkers

InFlight(op) == {c \in Calls : call[c].op = op /\ call[c].pc # "idle"}

\* faulty variant: the map is not behind a mutex
LockIgnored == TRUE

\* the mutex can be taken
LockFree == locked = 0

\* faulty variant: the guard outlives the command (it is leaked or stored)
GuardKept == locked

\* the holder of the mutex once the guard `subs` is dropped, at the return of
\* the command
Unlocked == 0

\* subs.contains_key(&full_url)
ContainsKey(subs, key) == key \in DOMAIN subs

\* subs.insert(full_url, handle)
Insert(subs, key, handle) ==
  [k \in DOMAIN subs \cup {key} |-> IF k = key THEN handle ELSE subs[k]]

\* faulty variant: subs.clear() in place of the remove
RemoveAll(subs, key) == EmptyMap

\* faulty variant: the entry is left in the map
RemoveNothing(subs, key) == subs

\* the map after subs.remove(&full_url)
Remove(subs, key) == [k \in DOMAIN subs \ {key} |-> subs[k]]

\* the Option that subs.remove(&full_url) returns; 0 stands for None
Taken(subs, key) == IF key \in DOMAIN subs THEN subs[key] ELSE 0

\* A command is invoked: subscribe(server_url, topic) or unsubscribe(server_url,
\* topic).  It first waits for the mutex (state.subscriptions.lock().await).
\* Invocations in flight take the lowest free slot.
Invoke(c, op, server_url, topic) ==
  /\ call[c].pc = "idle"
  /\ \A d \in Calls : d < c => call[d].pc # "idle"
  /\ op = "subscribe" => nworkers + Cardinality(InFlight("subscribe")) < limits.workers
  /\ call' = [call EXCEPT ![c] = [op |-> op, server_url |-> server_url,
                                  topic |-> topic, pc |-> "lock", handle |-> 0,
                                  result |-> "none"]]
  /\ UNCHANGED <<limits, subscriptions, locked, nworkers, worker, reads,
                 notifications, events>>

\* state.subscriptions.lock().await returns the guard
Lock(c) ==
  /\ call[c].pc = "lock"
  /\ LockFree
  /\ locked' = c
  /\ call' = [call EXCEPT ![c].pc =
                IF call[c].op = "subscribe" THEN "check" ELSE "remove"]
  /\ UNCHANGED <<limits, subscriptions, nworkers, worker, reads, notifications, events>>

\* the task tokio::spawn creates: scheduled, not yet polled, at the top of
\* its loop, holding its copies of full_url and base_url
NewWorker(server_url, topic) ==
  [NoWorker EXCEPT !.url = FullUrl(server_url, topic),
                   !.base = BaseUrl(server_url),
                   !.pc = "Connecting",
                   !.task = "notified",
                   !.origin = <<server_url, topic>>]

\* subscribe: if subs.contains_key(&full_url) { return Ok(()); }
\* otherwise let handle = tokio::spawn(async move { ... })
SubscribeCheck(c) ==
  /\ call[c].op = "subscribe" /\ call[c].pc = "check"
  /\ IF ContainsKey(subscriptions, FullUrl(call[c].server_url, call[c].topic))
     THEN /\ call' = [call EXCEPT ![c] = ReturnOk]
          /\ locked' = Unlocked
          /\ UNCHANGED <<limits, nworkers, worker>>
     ELSE /\ nworkers < limits.workers
          /\ nworkers' = nworkers + 1
          /\ worker' = [worker EXCEPT ![nworkers + 1] =
                          NewWorker(call[c].server_url, call[c].topic)]
          /\ call' = [call EXCEPT ![c].pc = "insert", ![c].handle = nworkers + 1]
          /\ UNCHANGED locked
  /\ UNCHANGED <<limits, subscriptions, reads, notifications, events>>

\* subscribe: subs.insert(full_url, handle); Ok(())
SubscribeInsert(c) ==
  /\ call[c].op = "subscribe" /\ call[c].pc = "insert"
  /\ subscriptions' = Insert(subscriptions,
                             FullUrl(call[c].server_url, call[c].topic),
                             call[c].handle)
  /\ call' = [call EXCEPT ![c] = ReturnOk]
  /\ locked' = Unlocked
  /\ UNCHANGED <<limits, nworkers, worker, reads, notifications, events>>

\* unsubscribe: if let Some(handle) = subs.remove(&full_url)
UnsubscribeRemove(c) ==
  /\ call[c].op = "unsubscribe" /\ call[c].pc = "remove"
  /\ LET key == FullUrl(call[c].server_url, call[c].topic) IN
     /\ subscriptions' = Remove(subscriptions, key)
     /\ call' = [call EXCEPT ![c].pc = "abort",
                             ![c].handle = Taken(subscriptions, key)]
  /\ UNCHANGED <<limits, locked, nworkers, worker, reads, notifications, events>>

\* faulty variant: the handle is dropped without abort, which detaches the task
AbortNothing(wk) == wk

\* faulty variant: abort stops the task where it is, also in the middle of a
\* poll
AbortAtOnce(wk) ==
  [wk EXCEPT !.cancelled = TRUE, !.task = "done", !.pc = "Cancelled",
             !.es = "none", !.frame = None]

\* JoinHandle::abort: the cancel flag is set; an idle task is scheduled so that
\* the runtime drops it, a task in the middle of a poll is left to finish it
Abort(wk) ==
  [wk EXCEPT !.cancelled = TRUE,
             !.task = IF wk.task = "idle" THEN "notified" ELSE wk.task]

\* unsubscribe: { handle.abort(); } when the remove gave Some(handle); then
\* Ok(()), which drops the guard
UnsubscribeAbort(c) ==
  /\ call[c].op = "unsubscribe" /\ call[c].pc = "abort"
  /\ worker' = IF call[c].handle # 0
               THEN [worker EXCEPT ![call[c].handle] = Abort(@)]
               ELSE worker
  /\ call' = [call EXCEPT ![c] = ReturnOk]
  /\ locked' = Unlocked
  /\ UNCHANGED <<limits, subscriptions, nworkers, reads, notifications, events>>

(* ------------------------ the worker task ----------------------------- *)

\* The future is dropped: the task is over and its locals are gone
Dropped(wk) ==
  [wk EXCEPT !.task = "done", !.pc = "Cancelled", !.es = "none",
             !.frame = None, !.conn = 0, !.skipped = FALSE,
             !.filtered = FALSE, !.timer = 0, !.late = 0]

\* faulty variant: a scheduled task is polled whether or not it is cancelled
PolledAnyway(wk) ==
  [wk EXCEPT !.task = "running",
             !.pc = IF wk.pc = "BackoffWait" THEN "Connecting" ELSE wk.pc]

\* faulty variant: cancellation is honoured in the read only, not in the sleep
PolledAfterSleep(wk) ==
  IF wk.cancelled /\ wk.pc # "BackoffWait"
  THEN Dropped(wk)
  ELSE [wk EXCEPT !.task = "running",
                  !.pc = IF wk.pc = "BackoffWait" THEN "Connecting" ELSE wk.pc]

\* faulty variant: a task that has had a connection returns after its sleep
\* and does not try again
PolledGivingUp(wk) ==
  IF wk.cancelled \/ (wk.pc = "BackoffWait" /\ wk.conn > 0)
  THEN Dropped(wk)
  ELSE [wk EXCEPT !.task = "running",
                  !.pc = IF wk.pc = "BackoffWait" THEN "Connecting" ELSE wk.pc]

\* The runtime takes a scheduled task: a task whose cancel flag is set is
\* dropped without being polled, any other is polled.  A poll that resumes the
\* backoff sleep finds the timer elapsed and goes on to the top of the loop.
Polled(wk) ==
  IF wk.cancelled
  THEN Dropped(wk)
  ELSE [wk EXCEPT !.task = "running",
                  !.pc = IF wk.pc = "BackoffWait" THEN "Connecting" ELSE wk.pc]

\* faulty variant: a poll that ends does not look at the cancel flag
SuspendIdle(wk) == [wk EXCEPT !.task = "idle"]

\* An .await returns Pending and the poll ends: the task goes idle, or, if
\* abort was called during the poll, it is dropped.
Suspend(wk) ==
  IF wk.cancelled
  THEN Dropped(wk)
  ELSE [wk EXCEPT !.task = "idle"]

Poll(w) ==
  /\ w \in Spawned
  /\ worker[w].task = "notified"
  /\ worker' = [worker EXCEPT ![w] = Polled(worker[w])]
  /\ UNCHANGED <<limits, subscriptions, locked, call, nworkers, reads,
                 notifications, events>>

Running(w, pc) == w \in Spawned /\ worker[w].task = "running" /\ worker[w].pc = pc

\* loop { let req = client.get(&sse_url); if let Ok(mut es) = EventSource::new(req)
\* EventSource::new fails when the request cannot be built from the URL; the
\* worker then goes straight to the sleep.  The run bounds the connections
\* that are opened, not the passes of the loop.
Connect(w, built) ==
  /\ Running(w, "Connecting")
  /\ built => worker[w].conn < limits.attempts
  /\ worker' = [worker EXCEPT ![w] =
       IF built
       THEN [@ EXCEPT !.pc = "Streaming", !.es = "connecting",
                      !.conn = @ + 1, !.skipped = FALSE,
                      !.filtered = FALSE]
       ELSE [@ EXCEPT !.pc = "Sleep"]]
  /\ UNCHANGED <<limits, subscriptions, locked, call, nworkers, reads,
                 notifications, events>>

\* es.next().await has nothing ready: the task is suspended in the read
NextPending(w) ==
  /\ Running(w, "Streaming")
  /\ worker' = [worker EXCEPT ![w] = Suspend(@)]
  /\ UNCHANGED <<limits, subscriptions, locked, call, nworkers, reads,
                 notifications, events>>

\* the connection has something for a task suspended in es.next().await
IoReady(w) ==
  /\ w \in Spawned
  /\ worker[w].task = "idle" /\ worker[w].pc = "Streaming"
  /\ worker' = [worker EXCEPT ![w].task = "notified"]
  /\ UNCHANGED <<limits, subscriptions, locked, call, nworkers, reads,
                 notifications, events>>

\* Ok(Event::Open) => println!
NextOpen(w) ==
  /\ Running(w, "Streaming")
  /\ worker[w].es = "connecting"
  /\ worker' = [worker EXCEPT ![w].es = "open"]
  /\ UNCHANGED <<limits, subscriptions, locked, call, nworkers, reads,
                 notifications, events>>

\* Ok(Event::Message(message)) =>
NextMessage(w, data) ==
  /\ Running(w, "Streaming")
  /\ worker[w].es = "open"
  /\ Len(reads) < limits.frames
  /\ reads' = Append(reads, [worker |-> w, data |-> data])
  /\ worker' = [worker EXCEPT ![w].pc = "Decode", ![w].frame = Some(data),
                               ![w].late = IF worker[w].cancelled
                                           THEN @ + 1 ELSE @]
  /\ UNCHANGED <<limits, subscriptions, locked, call, nworkers,
                 notifications, events>>

\* faulty variant: the tasks share one EventSource, so closing it ends the
\* stream of every worker
ClosedAll(ws, w) ==
  [v \in DOMAIN ws |->
     IF v = w THEN [ws[v] EXCEPT !.pc = "Sleep", !.es = "none"]
     ELSE IF ws[v].es # "none" THEN [ws[v] EXCEPT !.es = "none"]
     ELSE ws[v]]

\* es.close(); break: the task's own EventSource, a local of its loop, is
\* closed and the while loop is left
Closed(ws, w) == [ws EXCEPT ![w].pc = "Sleep", ![w].es = "none"]

\* Err(err) => { es.close(); break; } and the end of the stream (None), which
\* ends the while loop: both lead to the sleep
NextError(w, item) ==
  /\ Running(w, "Streaming")
  /\ worker[w].es \in {"connecting", "open"}
  /\ item \in {"Err", "None"}
  /\ worker' = Closed(worker, w)
  /\ UNCHANGED <<limits, subscriptions, locked, call, nworkers, reads,
                 notifications, events>>

\* faulty variant: a frame that does not decode is treated as a stream error
DecodedOrBreak(wk) ==
  LET r == Decode(wk.frame[1]) IN
  IF ~r.ok
  THEN [wk EXCEPT !.pc = "Sleep", !.es = "none", !.frame = None]
  ELSE IF Qualifies(r.msg)
  THEN [wk EXCEPT !.pc = "Show"]
  ELSE [wk EXCEPT !.pc = "Streaming", !.frame = None, !.filtered = TRUE]

\* if let Ok(msg) = serde_json::from_str(..) { if msg.event == "message" { .. } }
\* a frame that does not decode, or of another event kind, is dropped and the
\* while loop reads on
Decoded(wk) ==
  LET r == Decode(wk.frame[1]) IN
  IF r.ok /\ Qualifies(r.msg)
  THEN [wk EXCEPT !.pc = "Show"]
  ELSE [wk EXCEPT !.pc = "Streaming", !.frame = None,
                  !.skipped = IF r.ok THEN @ ELSE TRUE,
                  !.filtered = IF r.ok THEN TRUE ELSE @]

DecodeFrame(w) ==
  /\ Running(w, "Decode")
  /\ worker' = [worker EXCEPT ![w] = Decoded(@)]
  /\ UNCHANGED <<limits, subscriptions, locked, call, nworkers, reads,
                 notifications, events>>

\* the call app.notification().builder().id(..).title(..).body(..).show(),
\* with the message it is made for, its event kind and what show returned
Notification(w, msg, ok) ==
  [worker |-> w, id |-> NotificationId(msg.time), title |-> Title(msg),
   body |-> Body(msg), event |-> msg.event, msg |-> msg, ok |-> ok]

\* faulty variant: the Err arm leaves the dispatch, as a ? on show() would
ShownOrSkip(wk, ok) ==
  IF ok THEN [wk EXCEPT !.pc = "Emit"]
  ELSE [wk EXCEPT !.pc = "Streaming", !.frame = None]

\* match ...show() { Ok(_) => println!, Err(e) => eprintln! }: both arms go on
\* to the emit
Shown(wk, ok) == [wk EXCEPT !.pc = "Emit"]

Show(w, ok) ==
  /\ Running(w, "Show")
  /\ notifications' = Append(notifications,
                             Notification(w, Decode(worker[w].frame[1]).msg, ok))
  /\ worker' = [worker EXCEPT ![w] = Shown(@, ok)]
  /\ UNCHANGED <<limits, subscriptions, locked, call, nworkers, reads, events>>

\* FrontendMessage { server_url: base_url_clone.clone(), message: msg }, with
\* what emit returned
FrontendMessage(w, msg, ok) ==
  [worker |-> w, server_url |-> worker[w].base, message |-> msg, ok |-> ok]

\* faulty variant: an emit that failed is followed by a second dispatch of the
\* message
EmittedOrAgain(wk, ok) ==
  IF ok THEN [wk EXCEPT !.pc = "Streaming", !.frame = None]
  ELSE [wk EXCEPT !.pc = "Show"]

\* let _ = app_clone.emit("new-message", &payload); then the next es.next()
Emitted(wk, ok) == [wk EXCEPT !.pc = "Streaming", !.frame = None]

Emit(w, ok) ==
  /\ Running(w, "Emit")
  /\ events' = Append(events,
                      FrontendMessage(w, Decode(worker[w].frame[1]).msg, ok))
  /\ worker' = [worker EXCEPT ![w] = Emitted(@, ok)]
  /\ UNCHANGED <<limits, subscriptions, locked, call, nworkers, reads,
                 notifications>>

BackoffSecs == 5

\* faulty variant: the wait grows with the connections the task has made
BackoffGrowing(wk) == BackoffSecs * (wk.conn + 1)

\* Duration::from_secs(5): the length of the sleep, whatever the task has
\* been through
Backoff(wk) == BackoffSecs

\* tokio::time::sleep(Duration::from_secs(5)).await: the timer is armed and
\* the task is suspended in the sleep
Sleep(w) ==
  /\ Running(w, "Sleep")
  /\ worker' = [worker EXCEPT ![w] =
                  Suspend([worker[w] EXCEPT !.pc = "BackoffWait",
                                            !.timer = Backoff(worker[w])])]
  /\ UNCHANGED <<limits, subscriptions, locked, call, nworkers, reads,
                 notifications, events>>

\* the time left on the sleep passes: the timer wakes the task
TimerFires(w) ==
  /\ w \in Spawned
  /\ worker[w].task = "idle" /\ worker[w].pc = "BackoffWait"
  /\ worker' = [worker EXCEPT ![w].task = "notified", ![w].timer = 0]
  /\ UNCHANGED <<limits, subscriptions, locked, call, nworkers, reads,
                 notifications, events>>

(* ------------------------ specification ------------------------------- *)

Next ==
  \/ \E c \in Calls, op \in {"subscribe", "unsubscribe"}, target \in limits.targets :
        Invoke(c, op, target[1], target[2])
  \/ \E c \in Calls : Lock(c)
  \/ \E c \in Calls : SubscribeCheck(c)
  \/ \E c \in Calls : SubscribeInsert(c)
  \/ \E c \in Calls : UnsubscribeRemove(c)
  \/ \E c \in Calls : UnsubscribeAbort(c)
  \/ \E w \in Workers : Poll(w)
  \/ \E w \in Workers, built \in BOOLEAN : Connect(w, built)
  \/ \E w \in Workers : NextPending(w)
  \/ \E w \in Workers : IoReady(w)
  \/ \E w \in Workers : NextOpen(w)
  \/ \E w \in Workers, data \in limits.payloads : NextMessage(w, data)
  \/ \E w \in Workers, item \in {"Err", "None"} : NextError(w, item)
  \/ \E w \in Workers : DecodeFrame(w)
  \/ \E w \in Workers, ok \in limits.results : Show(w, ok)
  \/ \E w \in Workers, ok \in limits.results : Emit(w, ok)
  \/ \E w \in Workers : Sleep(w)
  \/ \E w \in Workers : TimerFires(w)

Spec == Init /\ [][Next]_vars

\* The steps of a worker that is being polled
Step(w) ==
  \/ \E built \in BOOLEAN : Connect(w, built)
  \/ NextPending(w)
  \/ NextOpen(w)
  \/ \E data \in limits.payloads : NextMessage(w, data)
  \/ \E item \in {"Err", "None"} : NextError(w, item)
  \/ DecodeFrame(w)
  \/ \E ok \in limits.results : Show(w, ok)
  \/ \E ok \in limits.results : Emit(w, ok)
  \/ Sleep(w)

\* The steps of a command that holds the mutex
Critical(c) ==
  \/ SubscribeCheck(c)
  \/ SubscribeInsert(c)
  \/ UnsubscribeRemove(c)
  \/ UnsubscribeAbort(c)

\* What the tokio runtime provides: a scheduled task is taken by a worker
\* thread, a thread that polls a task or runs a command goes on, a timer fires
\* when its time has passed, and the Mutex hands the lock to its waiters in
\* the order in which they came.  The network owes a worker nothing: a task
\* suspended in a read may stay there.
Fairness ==
  /\ \A w \in 1..FairWorkers :
       WF_vars(Poll(w)) /\ WF_vars(TimerFires(w)) /\ WF_vars(Step(w))
  /\ \A c \in 1..FairCalls : SF_vars(Lock(c)) /\ WF_vars(Critical(c))

FairSpec == Start(FairRun) /\ [][Next]_vars /\ Fairness

(* ------------------------ properties ---------------------------------- *)

Key(c) == FullUrl(call[c].server_url, call[c].topic)

\* the workers that no unsubscribe has cancelled
Live == {w \in Spawned : ~worker[w].cancelled}

\* the same (server, topic) pair, the server with or without a trailing "/"
SameTarget(a, b) ==
  /\ a[2] = b[2]
  /\ \/ a[1] = b[1]
     \/ a[1] = b[1] \o <<"/">>
     \/ b[1] = a[1] \o <<"/">>

\* worker w moves on in its code
Moved(w) == worker'[w].pc # worker[w].pc

\* a sink is called by worker w
Dispatched(w) ==
  \/ /\ Len(notifications') > Len(notifications)
     /\ notifications'[Len(notifications')].worker = w
  \/ /\ Len(events') > Len(events)
     /\ events'[Len(events')].worker = w

\* C1: a subscribe that names the (server, topic) pair of a worker that was
\* not unsubscribed, the server with or without a trailing separator, returns
\* Ok without spawning a worker and without touching the registry; a
\* subscribe that finds no entry spawns one worker and stores its handle under
\* its key.
C1_SubscribeOnce ==
  [][\A c \in Calls :
       (call[c].op = "subscribe" /\ call'[c] # call[c]) =>
         /\ (/\ call[c].pc = "check"
             /\ \E w \in Live :
                  SameTarget(worker[w].origin,
                             <<call[c].server_url, call[c].topic>>))
            => /\ call'[c] = ReturnOk
               /\ nworkers' = nworkers
               /\ worker' = worker
               /\ subscriptions' = subscriptions
         /\ (call[c].pc = "check" /\ Key(c) \notin DOMAIN subscriptions)
            => /\ nworkers' = nworkers + 1
               /\ call'[c].pc = "insert"
               /\ call'[c].handle = nworkers'
               /\ worker'[nworkers'].url = Key(c)
         /\ call[c].pc = "insert"
            => /\ call'[c] = ReturnOk
               /\ nworkers' = nworkers
               /\ DOMAIN subscriptions' = DOMAIN subscriptions \cup {Key(c)}
               /\ subscriptions'[Key(c)] = call[c].handle
               /\ \A k \in DOMAIN subscriptions : subscriptions'[k] = subscriptions[k]
    ]_vars

\* a second subscribe, naming the server in the other form, is about to find
\* the entry of the first
C1_Witness ==
  \E c \in Calls, w \in Live :
    /\ call[c].op = "subscribe" /\ call[c].pc = "check"
    /\ worker[w].origin[1] # call[c].server_url
    /\ SameTarget(worker[w].origin, <<call[c].server_url, call[c].topic>>)
    /\ Taken(subscriptions, Key(c)) = w
    /\ nworkers = 1

\* the calls that hold the guard
Holding == {c \in Calls : call[c].pc \in {"check", "insert", "remove", "abort"}}

\* C2: whatever the interleaving of concurrent subscribe calls, a key never
\* has two workers that were not unsubscribed: only the call holding the mutex
\* is between its membership check and its insertion.
C2_OneWorkerPerKey ==
  /\ \A v, w \in Live : worker[v].url = worker[w].url => v = w
  /\ \A c \in Holding : locked = c
  /\ Cardinality(Holding) <= 1

\* two subscribe calls for one key are in flight: one has spawned the worker
\* and is about to insert it, the other waits for the mutex
C2_Witness ==
  \E c, d \in Calls :
    /\ c # d
    /\ call[c].op = "subscribe" /\ call[c].pc = "insert"
    /\ call[d].op = "subscribe" /\ call[d].pc = "lock"
    /\ Key(c) = Key(d)

\* C3 as stated: once unsubscribe has returned (it returns in the step that
\* calls abort), the worker calls no sink.
C3_NoDispatchAfterUnsubscribe ==
  [][\A w \in Spawned : worker[w].cancelled => ~Dispatched(w)]_vars

\* C3, amended: a worker that is not in the middle of a poll when it is
\* cancelled is never polled again and calls no sink; the sink calls are made
\* in the middle of a poll only.
C3_NoDispatchOnceSuspended ==
  /\ [][\A w \in Spawned :
          (worker[w].cancelled /\ worker[w].task # "running") =>
            (worker'[w].task # "running" /\ ~Dispatched(w))]_vars
  /\ [](\A w \in Spawned :
          worker[w].pc \in {"Decode", "Show", "Emit"} => worker[w].task = "running")

\* unsubscribe found the worker suspended in the read of an open connection
C3_Witness ==
  \E w \in Spawned :
    /\ worker[w].cancelled /\ worker[w].task = "notified"
    /\ worker[w].pc = "Streaming" /\ worker[w].es = "open"

\* C4: an unsubscribe whose key has no entry changes neither the registry nor
\* any worker nor the sinks, and returns Ok.
C4_UnsubscribeUnknown ==
  [][\A c \in Calls :
       (call[c].op = "unsubscribe" /\ call'[c] # call[c]) =>
         /\ (call[c].pc = "remove" /\ Key(c) \notin DOMAIN subscriptions)
            => /\ call'[c].pc = "abort" /\ call'[c].handle = 0
               /\ subscriptions' = subscriptions
               /\ UNCHANGED <<nworkers, worker, notifications, events>>
         /\ (call[c].pc = "abort" /\ call[c].handle = 0)
            => /\ call'[c] = ReturnOk
               /\ UNCHANGED <<subscriptions, nworkers, worker, notifications, events>>
    ]_vars

\* an unsubscribe found no entry for its key while another key has a worker
C4_Witness ==
  \E c \in Calls :
    /\ call[c].op = "unsubscribe" /\ call[c].pc = "abort" /\ call[c].handle = 0
    /\ DOMAIN subscriptions # {}

\* C5: a worker that unsubscribe cancels during its backoff wait, whether or
\* not the timer has fired, never returns to the top of its loop: it makes no
\* connection attempt and its next position is Cancelled.
C5_NoReconnectAfterCancel ==
  [][\A w \in Spawned :
       (worker[w].cancelled /\ worker[w].pc = "BackoffWait") =>
         /\ worker'[w].pc \in {"BackoffWait", "Cancelled"}
         /\ worker'[w].task # "running"
         /\ worker'[w].es = "none"
         /\ worker'[w].conn <= worker[w].conn]_vars

\* a worker was cancelled in its backoff wait, after a connection that failed
C5_Witness ==
  \E w \in Spawned :
    /\ worker[w].cancelled /\ worker[w].pc = "BackoffWait"
    /\ worker[w].conn > 0

\* C6: whenever no command holds the mutex, the registry holds exactly the
\* workers that were not cancelled, each under its own key, and none of them
\* is over.
C6_RegistryOwnsLiveWorkers ==
  LockFree =>
    /\ DOMAIN subscriptions = {worker[w].url : w \in Live}
    /\ \A k \in DOMAIN subscriptions :
         /\ subscriptions[k] \in Live
         /\ worker[subscriptions[k]].url = k
         /\ worker[subscriptions[k]].task # "done"
    /\ \A w \in Live : subscriptions[worker[w].url] = w

\* after subscribe, unsubscribe and subscribe again: one worker cancelled and
\* gone, one registered
C6_Witness ==
  /\ LockFree
  /\ \E v, w \in Spawned :
       /\ worker[v].task = "done"
       /\ w \in Live
       /\ DOMAIN subscriptions = {worker[w].url}

\* C7 as stated: once the new worker of a key is spawned, the old worker of
\* that key does nothing more.
C7_OldWorkerStopped ==
  [][\A v, w \in Spawned :
       (v < w /\ worker[v].url = worker[w].url) =>
         (worker'[v] = worker[v] \/ worker'[v].task = "done")]_vars

\* C7, amended: a subscribe after an unsubscribe of the same key spawns a new
\* worker at the top of its loop, not yet polled; every older worker of the
\* key is cancelled and, once it is not in the middle of a poll, is never
\* polled again.
C7_NewWorkerOldCancelled ==
  /\ [](\A v, w \in Spawned :
          (v < w /\ worker[v].url = worker[w].url) => worker[v].cancelled)
  /\ [][\A v, w \in Spawned :
          (v < w /\ worker[v].url = worker[w].url /\ worker[v].task # "running")
            => worker'[v].task # "running"]_vars
  /\ [][nworkers' # nworkers =>
          /\ nworkers' = nworkers + 1
          /\ worker'[nworkers'].pc = "Connecting"
          /\ worker'[nworkers'].task = "notified"
          /\ ~worker'[nworkers'].cancelled
          /\ worker'[nworkers'].conn = 0]_vars

\* the new worker of a key is registered and running while the cancelled one
\* is still in the poll in which abort found it
C7_Witness ==
  \E v, w \in Spawned :
    /\ v < w /\ worker[v].url = worker[w].url
    /\ worker[v].task = "running"
    /\ worker[w].task = "running"
    /\ Taken(subscriptions, worker[w].url) = w

\* C8: every call of a sink is for a message whose event kind is "message".
C8_OnlyMessagesDispatched ==
  /\ \A i \in 1..Len(notifications) : notifications[i].event = "message"
  /\ \A i \in 1..Len(events) : events[i].message.event = "message"

\* a frame of another event kind was decoded and dropped, and no sink was called
C8_Witness ==
  \E w \in Spawned :
    /\ worker[w].filtered /\ worker[w].pc = "Streaming"
    /\ Len(reads) = 1 /\ notifications = <<>> /\ events = <<>>

\* C9: a frame that does not decode is dropped without a sink call and the
\* worker reads on from the same connection; a frame that decodes to a
\* "message" is shown and emitted whatever was dropped before it.
C9_SkipMalformed ==
  [][\A w \in Spawned :
       (worker[w].pc = "Decode" /\ Moved(w)) =>
         LET r == Decode(worker[w].frame[1]) IN
         /\ worker'[w].task = "running"
         /\ worker'[w].es = worker[w].es /\ worker'[w].conn = worker[w].conn
         /\ UNCHANGED <<notifications, events>>
         /\ ~r.ok => worker'[w].pc = "Streaming"
         /\ (r.ok /\ r.msg.event = "message") => worker'[w].pc = "Show"]_vars

\* a frame is being dispatched on a connection on which a frame that did not
\* decode was dropped
C9_Witness ==
  \E w \in Spawned :
    /\ worker[w].skipped /\ worker[w].pc = "Emit"
    /\ Len(notifications) = 1

\* C10: whatever show returns, emit is called next for the same message, and
\* whatever emit returns, the worker reads on from the same connection; no
\* frame is shown twice.
C10_SinkFailuresSwallowed ==
  /\ [][\A w \in Spawned :
          (worker[w].pc = "Show" /\ Moved(w)) =>
            /\ worker'[w].pc = "Emit" /\ worker'[w].task = "running"
            /\ worker'[w].frame = worker[w].frame
            /\ worker'[w].es = worker[w].es /\ worker'[w].conn = worker[w].conn
            /\ Len(notifications') = Len(notifications) + 1
            /\ events' = events]_vars
  /\ [][\A w \in Spawned :
          (worker[w].pc = "Emit" /\ Moved(w)) =>
            /\ worker'[w].pc = "Streaming" /\ worker'[w].task = "running"
            /\ worker'[w].es = worker[w].es /\ worker'[w].conn = worker[w].conn
            /\ Len(events') = Len(events) + 1
            /\ events'[Len(events')].message = Decode(worker[w].frame[1]).msg
            /\ notifications' = notifications]_vars
  /\ [](Len(notifications) <= Len(reads) /\ Len(events) <= Len(notifications))

\* show failed and emit failed for one message, and the worker is reading the
\* same connection
C10_Witness ==
  \E w \in Spawned, i \in 1..Len(events) :
    /\ notifications[i].worker = w /\ ~notifications[i].ok
    /\ events[i].worker = w /\ ~events[i].ok
    /\ worker[w].pc = "Streaming" /\ worker[w].task = "running"
    /\ worker[w].es = "open" /\ worker[w].conn = 1

\* a step in which worker w fails: its connection cannot be opened, its stream
\* ends or reports an error, its frame does not decode, or a sink it calls
\* returns an error
Failed(w) ==
  /\ worker[w].task = "running"
  /\ \/ worker[w].pc \in {"Connecting", "Streaming"} /\ worker'[w].pc = "Sleep"
     \/ /\ worker[w].pc = "Decode" /\ Moved(w)
        /\ worker[w].frame[1].form = "text"
     \/ /\ Len(notifications') > Len(notifications)
        /\ notifications'[Len(notifications')].worker = w
        /\ ~notifications'[Len(notifications')].ok
     \/ /\ Len(events') > Len(events)
        /\ events'[Len(events')].worker = w
        /\ ~events'[Len(events')].ok

\* C11: a step in which the worker of one topic fails leaves the registry, the
\* mutex, the commands and every other worker as they were, so that what the
\* other workers could do before the step they can do after it.
C11_FailureIsLocal ==
  [][\A w \in Spawned :
       Failed(w) =>
         /\ subscriptions' = subscriptions
         /\ locked' = locked /\ call' = call
         /\ nworkers' = nworkers
         /\ \A v \in Workers \ {w} : worker'[v] = worker[v]]_vars

\* the connection of one topic's worker has failed and the worker is in its
\* backoff wait, while the worker of another topic, still registered, is in
\* the middle of a dispatch on an open connection
C11_Witness ==
  \E w, v \in Live :
    /\ worker[w].url # worker[v].url
    /\ worker[w].pc = "BackoffWait" /\ worker[w].conn = 1
    /\ worker[v].pc = "Emit" /\ worker[v].es = "open"
    /\ worker[v].url \in DOMAIN subscriptions
    /\ subscriptions[worker[v].url] = v

\* C12: the id passed to the notification builder lies in 0..2^31-1 whatever
\* the time field of the message, negative values included, and two messages
\* with the same time get the same id.
C12_HandleInRange ==
  \A i, j \in 1..Len(notifications) :
    /\ notifications[i].id \in 0..I32Max
    /\ notifications[i].msg.time = notifications[j].msg.time
       => notifications[i].id = notifications[j].id

\* C13: the title passed to show is the title of the message when it carries
\* one and otherwise the label "ntfy" followed by ": " and the topic; the body
\* passed is the message field when the message carries one and otherwise the
\* empty string.
C13_TitleAndBody ==
  \A i \in 1..Len(notifications) :
    LET n == notifications[i] IN
    /\ n.msg.title # None => n.title = n.msg.title[1]
    /\ n.msg.title = None => n.title = <<"ntfy: ", n.msg.topic>>
    /\ n.msg.message # None => n.body = n.msg.message[1]
    /\ n.msg.message = None => n.body = ""

\* on one connection a message with neither field and a message with both were
\* shown: the first under the fallback title with an empty body, the second
\* under its own title and body
C13_Witness ==
  /\ Len(notifications) = 2
  /\ notifications[1].msg.title = None /\ notifications[1].msg.message = None
  /\ notifications[1].title = <<"ntfy: ", "b">> /\ notifications[1].body = ""
  /\ notifications[2].title = <<"T">> /\ notifications[2].body = "B"

\* C14: a worker whose connection attempt fails, or whose stream reports an
\* error or ends, goes to the sleep next; the sleep it is suspended in is of
\* BackoffSecs seconds whatever the number of connections it has made; and it
\* comes back to the top of its loop, where the next connection attempt is
\* made, only from that sleep and only when the whole of it has passed.
C14_FixedBackoff ==
  [][\A w \in Spawned :
       /\ (/\ worker[w].task = "running"
           /\ worker[w].pc \in {"Connecting", "Streaming"}
           /\ worker'[w].pc \notin {"Connecting", "Streaming", "Decode",
                                     "Cancelled"})
          => worker'[w].pc = "Sleep" /\ worker'[w].es = "none"
       /\ (worker[w].pc = "Sleep" /\ Moved(w))
          => \/ worker'[w].pc = "Cancelled"
             \/ /\ worker'[w].pc = "BackoffWait" /\ worker'[w].task = "idle"
                /\ worker'[w].timer = BackoffSecs
                /\ worker'[w].conn = worker[w].conn
       /\ (worker[w].pc = "BackoffWait" /\ worker'[w].timer # worker[w].timer)
          => \/ worker'[w].pc = "Cancelled"
             \/ /\ worker[w].timer = BackoffSecs /\ worker'[w].timer = 0
                /\ worker'[w].pc = "BackoffWait"
       /\ (worker[w].pc # "Connecting" /\ worker'[w].pc = "Connecting")
          => \/ w > nworkers
             \/ /\ worker[w].pc = "BackoffWait" /\ worker[w].timer = 0
                /\ worker'[w].conn = worker[w].conn]_vars

\* a worker has made two connections, each of which failed and was followed by
\* a sleep that passed, and is at the top of its loop for the third time
C14_Witness ==
  \E w \in Live :
    /\ worker[w].conn = 2 /\ worker[w].es = "none"
    /\ worker[w].pc = "Connecting" /\ worker[w].task = "running"

\* C15: under fair scheduling a worker that has failed and that no unsubscribe
\* cancels comes back to the top of its loop, where it makes its next
\* connection attempt, after every failure; a worker's task is over only if
\* abort was called on it, and abort is called on it only by an unsubscribe
\* that took its handle out of the registry under its key.
C15_RetriesForever ==
  /\ \A w \in 1..FairWorkers :
       [](worker[w].pc = "Sleep" =>
            <>(worker[w].cancelled
               \/ (worker[w].pc = "Connecting" /\ worker[w].task = "running")))
  /\ [](\A w \in Spawned :
          worker[w].task = "done" \/ worker[w].pc = "Cancelled"
            => worker[w].cancelled)
  /\ [][\A w \in Spawned :
          (worker'[w].cancelled /\ ~worker[w].cancelled) =>
            \E c \in Calls :
              /\ call[c].op = "unsubscribe" /\ call[c].pc = "abort"
              /\ call[c].handle = w /\ Key(c) = worker[w].url
              /\ call'[c] = ReturnOk]_vars

\* a worker that no unsubscribe cancelled is streaming on its second
\* connection, after a failure and the wait that followed it
C15_Witness ==
  \E w \in Live :
    /\ worker[w].conn = 2 /\ worker[w].es = "open"
    /\ worker[w].pc = "Streaming"

\* C16 as stated: a worker on which abort was called reads at most one more
\* frame before its task is over.
C16_OneReadAfterCancel ==
  \A w \in Spawned : worker[w].late <= 1

\* C16: under fair scheduling a worker on which abort was called reaches
\* Cancelled, whatever it was doing.  A worker that was suspended or scheduled
\* does not run again; a worker that was in the middle of a poll goes on,
\* reading and dispatching the frames that are ready, to the first read or
\* sleep that has to wait, and is dropped there: it is never suspended again
\* and no sleep of its passes.  The unsubscribe that calls abort returns Ok in
\* the same step, whatever the worker is doing.
C16_CancelledAtNextSuspension ==
  /\ \A w \in 1..FairWorkers :
       [](worker[w].cancelled => <>(worker[w].pc = "Cancelled"))
  /\ [][\A w \in Spawned :
          worker[w].cancelled =>
            /\ worker[w].task # "running" =>
                 \/ worker'[w] = worker[w]
                 \/ worker'[w].pc = "Cancelled" /\ worker'[w].task = "done"
            /\ worker'[w].task # "idle"
            /\ worker'[w].timer = worker[w].timer \/ worker'[w].pc = "Cancelled"
            /\ worker[w].pc = "Sleep" =>
                 worker'[w].pc \in {"Sleep", "Cancelled"}]_vars
  /\ [][\A c \in Calls :
          (call[c].pc = "abort" /\ call'[c] # call[c]) =>
            /\ call'[c] = ReturnOk
            /\ call[c].handle # 0 =>
                 /\ worker'[call[c].handle].cancelled
                 /\ worker'[call[c].handle].pc = worker[call[c].handle].pc]_vars

\* unsubscribe has returned and the worker it cancelled, which was in the
\* middle of a poll, has since read two frames
C16_Witness ==
  \E w \in Spawned :
    /\ worker[w].cancelled /\ worker[w].task = "running"
    /\ worker[w].late = 2 /\ worker[w].pc = "Emit"
    /\ \A c \in Calls : call[c].pc = "idle"

\* the messages of the frames worker w has read whose data is a JSON object
\* with every required field and the event kind "message", in the order read
Readable(w) ==
  LET q == SelectSeq(reads, LAMBDA r :
             /\ r.worker = w
             /\ r.data.form = "object"
             /\ RequiredFields \subseteq DOMAIN r.data.obj
             /\ r.data.obj.event = "message")
  IN [i \in 1..Len(q) |-> Decode(q[i].data).msg]

\* the messages worker w has called show for, and emit for, in the order called
ShownBy(w) ==
  LET q == SelectSeq(notifications, LAMBDA n : n.worker = w)
  IN [i \in 1..Len(q) |-> q[i].msg]

EmittedBy(w) ==
  LET q == SelectSeq(events, LAMBDA e : e.worker = w)
  IN [i \in 1..Len(q) |-> q[i].message]

AllButLast(q) == SubSeq(q, 1, Len(q) - 1)

\* C17: the messages a worker has shown, and those it has emitted, are the
\* decodable "message" frames it has read, each once and in the order read,
\* but for the frame it is handling: a worker that is not between a read and
\* the end of its dispatch has dispatched every such frame, so each dispatch
\* is over before the next frame is read and no such frame is dropped.
C17_DispatchesAreTheReads ==
  \A w \in Spawned :
    LET handling == worker[w].pc \in {"Decode", "Show", "Emit"}
        mine == SelectSeq(reads, LAMBDA r : r.worker = w)
        last == mine[Len(mine)]
        held == /\ handling
                /\ Decode(worker[w].frame[1]).ok
                /\ Decode(worker[w].frame[1]).msg.event = "message"
    IN
    /\ handling => /\ Len(mine) > 0
                   /\ worker[w].frame = Some(last.data)
    /\ worker[w].pc = "Show" => held
    /\ worker[w].pc = "Emit" => held
    /\ ShownBy(w) = IF held /\ worker[w].pc # "Emit"
                    THEN AllButLast(Readable(w)) ELSE Readable(w)
    /\ EmittedBy(w) = IF held THEN AllButLast(Readable(w)) ELSE Readable(w)

\* on its one connection a worker has read two different messages and has
\* shown and emitted the two in the order read
C17_Witness ==
  \E w \in Live :
    /\ worker[w].conn = 1 /\ worker[w].pc = "Streaming"
    /\ Len(EmittedBy(w)) = 2
    /\ EmittedBy(w)[1] # EmittedBy(w)[2]
    /\ EmittedBy(w) = ShownBy(w)

\* C18: the mutex is held only by a command that is between its lock().await
\* and its return, where it looks up, inserts into or removes from the map,
\* spawns or aborts: no step of the holder reads a frame, calls a sink or
\* changes a connection, and no worker holds the mutex.  Every return path of
\* a command releases the mutex with the result Ok.  Under fair scheduling
\* every command that waits for the mutex acquires it, and every command
\* returns Ok.
C18_LockDiscipline ==
  /\ [](locked # 0 =>
          /\ locked \in Calls
          /\ call[locked].pc \in {"check", "insert", "remove", "abort"})
  /\ [](\A c \in Calls :
          call[c].pc \in {"check", "insert", "remove", "abort"} => locked = c)
  /\ [][locked # 0 =>
          /\ call'[locked] # call[locked] =>
               /\ reads' = reads /\ notifications' = notifications
               /\ events' = events
               /\ \A w \in Workers :
                    /\ worker'[w].es = worker[w].es
                    /\ worker'[w].timer = worker[w].timer
          /\ locked' \in {locked, 0}
          /\ locked' = 0 => call'[locked] = ReturnOk]_vars
  /\ [][\A c \in Calls :
          (call[c].pc # "idle" /\ call'[c].pc = "idle") =>
            /\ locked = c /\ locked' = 0
            /\ call'[c].result = "Ok"]_vars
  /\ \A c \in 1..FairCalls :
       /\ [](call[c].pc = "lock" => <>(locked = c))
       /\ [](call[c].pc # "idle" =>
              <>(call[c].pc = "idle" /\ call[c].result = "Ok"))

\* one command is inserting the handle of the worker it spawned, which is
\* already connecting, while a second command waits for the mutex
C18_Witness ==
  \E c, d \in Calls :
    /\ locked = c /\ call[c].pc = "insert"
    /\ worker[call[c].handle].es = "connecting"
    /\ call[d].pc = "lock"

\* C19: a worker is between show and emit of a message only in the middle of
\* a poll, so abort cannot take it from there: the messages it has shown are
\* the messages it has emitted, plus the one it is about to emit when it is at
\* the emit, whether or not abort was called on it.
C19_ShownThenEmitted ==
  \A w \in Spawned :
    /\ worker[w].pc = "Emit" =>
         /\ worker[w].task = "running"
         /\ Len(ShownBy(w)) > 0
         /\ AllButLast(ShownBy(w)) = EmittedBy(w)
    /\ worker[w].pc # "Emit" => ShownBy(w) = EmittedBy(w)

\* abort was called on a worker after it read the frame it is dispatching,
\* unsubscribe has returned, and the worker, which has shown the message, is
\* at the emit
C19_Witness ==
  \E w \in Spawned :
    /\ worker[w].cancelled /\ worker[w].late = 0
    /\ worker[w].pc = "Emit"
    /\ Len(ShownBy(w)) = Len(EmittedBy(w)) + 1
    /\ \A c \in Calls : call[c].pc = "idle"

\* the same pair once the trailing separators of the server are removed
SamePair(a, b) == BaseUrl(a[1]) = BaseUrl(b[1]) /\ a[2] = b[2]

\* C20: a command whose (server, topic) pair differs, after normalisation,
\* from the pair a live worker was subscribed with computes a key other than
\* that worker's, and an unsubscribe calls abort only on a worker that was
\* subscribed with its own pair.
C20_KeysSeparate ==
  \A c \in Calls, w \in Live :
    (/\ call[c].pc # "idle"
     /\ ~SamePair(<<call[c].server_url, call[c].topic>>, worker[w].origin))
    => /\ Key(c) # worker[w].url
       /\ call[c].handle # w

====
